---------------------------- MODULE Spec2Model ----------------------------
(* Tool registry and tool executor of lib/llm (registry.ts, executor,     *)
(* types).  The registry is the process-wide Map<string, ToolDefinition>; *)
(* the executor runs invocations against it and turns every outcome into  *)
(* a ToolResult.  parseHumanDate of lib/date-parser turns a phrase into a *)
(* YYYY-MM-DD string, read against the current date.  The handler of      *)
(* create_checklist (lib/llm/tools/checklist) writes a checklist and its  *)
(* items to the database.                                                  *)
EXTENDS Integers, Sequences, FiniteSets, TLC

VARIABLES
  tools,     \* ToolRegistry.tools: the Map, as its entries in insertion order
  regLog,    \* history: the argument of every register call, in call order
  lastOp,    \* the registry operation that ran last, and how it ended
  now,       \* performance.now(), in clock ticks
  call,      \* the executeTool / executeTools call being served
  tasks,     \* one executeTool activation per started invocation
  joined,    \* the promise the caller awaits (for a list: Promise.all's)
  returned,  \* what the caller of executeTool / executeTools got back
  today,     \* the local calendar date new Date() falls on
  dateInput, \* the string a caller is about to hand to parseHumanDate
  dateCalls, \* history: the parseHumanDate calls made, each with how it ended
  db,        \* the rows of the tables checklists and checklistItems
  idsMade,   \* how many ids nanoid() has handed out
  checklistRun  \* the activation of the create_checklist handler

vars == <<tools, regLog, lastOp, now, call, tasks, joined, returned,
          today, dateInput, dateCalls, db, idsMade, checklistRun>>

DateVars == <<today, dateInput, dateCalls>>

ChecklistVars == <<db, idsMade, checklistRun>>

-----------------------------------------------------------------------------
(* Bounds of the model *)

MaxBatch == 2          \* longest list handed to executeTools
MaxClock == 2          \* last clock tick
TicksPerMs == 2        \* clock ticks per millisecond
MaxRegisterCalls == 3  \* register calls in one run of the registry
MaxChecklistCalls == 2 \* calls of the create_checklist handler in one run

-----------------------------------------------------------------------------
(* JavaScript values.  Every value is a record of one shape, so that any  *)
(* two of them can be compared.                                            *)

Undefined == [type |-> "undefined", data |-> ""]
Str(s) == [type |-> "string", data |-> s]
\* the object { echo: m } the test tool returns
EchoObject(m) == [type |-> "object", data |-> m]
\* new Error(m)
NewError(m) == [type |-> "Error", data |-> m]
\* error instanceof Error
InstanceOfError(v) == v.type = "Error"

-----------------------------------------------------------------------------
(* Map<string, ToolDefinition>: entries in insertion order *)

MapHas(m, k) == \E i \in 1..Len(m) : m[i].key = k

MapGet(m, k) ==
  IF MapHas(m, k)
    THEN m[CHOOSE i \in 1..Len(m) : m[i].key = k].value
    ELSE Undefined

\* set keeps the position of a key the map already holds
MapSet(m, k, v) ==
  IF MapHas(m, k)
    THEN [i \in 1..Len(m) |-> IF m[i].key = k THEN [key |-> k, value |-> v] ELSE m[i]]
    ELSE Append(m, [key |-> k, value |-> v])

\* Array.from(m.values())
MapValues(m) == SubSeq([i \in 1..Len(m) |-> m[i].value], 1, Len(m))

-----------------------------------------------------------------------------
(* Tool definitions.  execute names the handler; the handlers are:        *)
(*   echo          async (params) => ({ echo: params.message })           *)
(*   noop          async () => {}                                         *)
(*   throws        (params) => { throw new Error(params.message) }        *)
(*   rejects       async (params) => { throw new Error(params.message) }  *)
(*   rejectsValue  async (params) => { throw params.message }             *)
(*   parseDate     the handler of parse_date, on params.dateString         *)

ToolDef(n, h) == [name |-> n, execute |-> h]

mockTool == ToolDef("test_tool", "echo")
dateParserTool == ToolDef("parse_date", "parseDate")

ToolDefs ==
  { mockTool,
    ToolDef("test_tool", "noop"),
    ToolDef("noop_tool", "noop"),
    ToolDef("throws_tool", "throws"),
    ToolDef("rejects_tool", "rejects"),
    ToolDef("raw_tool", "rejectsValue") }

\* the tools the startup module registers, in its order
StartupTools ==
  << mockTool,
     ToolDef("noop_tool", "noop"),
     ToolDef("throws_tool", "throws"),
     ToolDef("rejects_tool", "rejects"),
     ToolDef("raw_tool", "rejectsValue"),
     dateParserTool >>

ToolNames ==
  {d.name : d \in ToolDefs} \cup {StartupTools[i].name : i \in 1..Len(StartupTools)}
    \cup {"nonexistent_tool"}

-----------------------------------------------------------------------------
(* ToolRegistry *)

\* how a call ends: with a value, or by throwing
Normal(v) == [value |-> v, thrown |-> Undefined]
Throw(e) == [value |-> Undefined, thrown |-> e]
Bool(b) == [type |-> "boolean", data |-> IF b THEN "true" ELSE "false"]

AlreadyRegisteredMessage(n) == "Tool \"" \o n \o "\" is already registered"

\* a faulty variant of register: a duplicate name silently replaces the definition
ToolRegistry_register_overwrite(m, tool) ==
  [tools |-> MapSet(m, tool.name, tool), thrown |-> Undefined]

\* register(tool): the map after the call and what the call threw
ToolRegistry_register(m, tool) ==
  IF MapHas(m, tool.name)
    THEN [tools |-> m, thrown |-> NewError(AlreadyRegisteredMessage(tool.name))]
    ELSE [tools |-> MapSet(m, tool.name, tool), thrown |-> Undefined]

\* a faulty variant of get: a missing name throws
ToolRegistry_get_strict(m, name) ==
  IF MapHas(m, name) THEN Normal(MapGet(m, name))
                     ELSE Throw(NewError("Tool not found"))

ToolRegistry_get(m, name) == Normal(MapGet(m, name))

\* a faulty variant of the map after get: the entry read moves to the end, as in
\* a cache that keeps its entries by last use
ToolRegistry_get_tools_touch(m, name) ==
  IF MapHas(m, name)
    THEN LET at == CHOOSE i \in 1..Len(m) : m[i].key = name IN
           SubSeq(m, 1, at - 1) \o SubSeq(m, at + 1, Len(m)) \o <<m[at]>>
    ELSE m

\* the map after get(name): get reads the map and writes nothing
ToolRegistry_get_tools(m, name) == m

\* a faulty variant of getAll: the newest registration first
ToolRegistry_getAll_reversed(m) ==
  SubSeq([i \in 1..Len(m) |-> MapValues(m)[Len(m) + 1 - i]], 1, Len(m))

ToolRegistry_getAll(m) == MapValues(m)

ToolRegistry_has(m, name) == MapHas(m, name)

NoOp == [op |-> "none", arg |-> Undefined, value |-> Undefined, thrown |-> Undefined]

ExecutorVars == <<now, call, tasks, joined, returned>>

Register(tool) ==
  /\ LET r == ToolRegistry_register(tools, tool) IN
       /\ tools' = r.tools
       /\ lastOp' = [op |-> "register", arg |-> tool, value |-> Undefined,
                     thrown |-> r.thrown]
       /\ regLog' = Append(regLog, [tool |-> tool, thrown |-> r.thrown])
  /\ UNCHANGED ExecutorVars
  /\ UNCHANGED DateVars
  /\ UNCHANGED ChecklistVars

Get(name) ==
  /\ LET r == ToolRegistry_get(tools, name) IN
       lastOp' = [op |-> "get", arg |-> Str(name), value |-> r.value,
                  thrown |-> r.thrown]
  /\ tools' = ToolRegistry_get_tools(tools, name)
  /\ UNCHANGED regLog
  /\ UNCHANGED ExecutorVars
  /\ UNCHANGED DateVars
  /\ UNCHANGED ChecklistVars

Has(name) ==
  /\ lastOp' = [op |-> "has", arg |-> Str(name),
                value |-> Bool(ToolRegistry_has(tools, name)), thrown |-> Undefined]
  /\ UNCHANGED <<tools, regLog>>
  /\ UNCHANGED ExecutorVars
  /\ UNCHANGED DateVars
  /\ UNCHANGED ChecklistVars

GetAll ==
  /\ lastOp' = [op |-> "getAll", arg |-> Undefined,
                value |-> ToolRegistry_getAll(tools), thrown |-> Undefined]
  /\ UNCHANGED <<tools, regLog>>
  /\ UNCHANGED ExecutorVars
  /\ UNCHANGED DateVars
  /\ UNCHANGED ChecklistVars

-----------------------------------------------------------------------------
(* Strings of JavaScript, one character at a time *)

\* the characters i..j of s that s has
Substring(s, i, j) ==
  IF i > j \/ i > Len(s) THEN "" ELSE SubSeq(s, i, IF j < Len(s) THEN j ELSE Len(s))
\* the i-th character of s, "" past its end
CharAt(s, i) == Substring(s, i, i)
\* s from its i-th character on
From(s, i) == Substring(s, i, Len(s))

UpperCase == "ABCDEFGHIJKLMNOPQRSTUVWXYZ"
LowerCase == "abcdefghijklmnopqrstuvwxyz"
\* \d
Digits == {"0", "1", "2", "3", "4", "5", "6", "7", "8", "9"}
\* \w
WordChars ==
  {CharAt(UpperCase, i) : i \in 1..Len(UpperCase)} \cup
  {CharAt(LowerCase, i) : i \in 1..Len(LowerCase)} \cup Digits \cup {"_"}
\* \s, and what trim takes off (the characters of it the inputs are made of)
WhiteSpace == {" ", "\t", "\n", "\r", "\f"}

ToLowerChar(c) ==
  IF \E i \in 1..Len(UpperCase) : CharAt(UpperCase, i) = c
  THEN CharAt(LowerCase, CHOOSE i \in 1..Len(UpperCase) : CharAt(UpperCase, i) = c)
  ELSE c

RECURSIVE toLowerCase(_)
\* String.prototype.toLowerCase
toLowerCase(s) ==
  IF s = "" THEN "" ELSE ToLowerChar(CharAt(s, 1)) \o toLowerCase(From(s, 2))

RECURSIVE SkipWhile(_, _, _)
\* the first position from i on whose character is not of the class, a greedy
\* run of the class taken; Len(s) + 1 when the run goes to the end
SkipWhile(s, i, class) ==
  IF i <= Len(s) /\ CharAt(s, i) \in class THEN SkipWhile(s, i + 1, class) ELSE i

RECURSIVE SkipBack(_, _, _)
\* the last position up to i whose character is not of the class; 0 if none
SkipBack(s, i, class) ==
  IF i >= 1 /\ CharAt(s, i) \in class THEN SkipBack(s, i - 1, class) ELSE i

\* a faulty variant of trim: only the front is trimmed
trim_start(s) == From(s, SkipWhile(s, 1, WhiteSpace))

\* String.prototype.trim
trim(s) == Substring(s, SkipWhile(s, 1, WhiteSpace), SkipBack(s, Len(s), WhiteSpace))

\* t stands in s at position i
StartsWithAt(s, i, t) == i + Len(t) - 1 <= Len(s) /\ SubSeq(s, i, i + Len(t) - 1) = t
\* the text t is all of s from position i to its end
EndsAt(s, i, t) == From(s, i) = t
\* String.prototype.includes
Includes(s, t) == \E i \in 1..(Len(s) + 1) : StartsWithAt(s, i, t)

\* a number of JavaScript: NaN, or a whole number
NaN == [nan |-> TRUE, number |-> 0]
Number(n) == [nan |-> FALSE, number |-> n]
isNaN(q) == q.nan

DigitValue(c) == CHOOSE n \in 0..9 : ToString(n) = c

RECURSIVE DecimalValue(_)
\* the number a string of digits writes
DecimalValue(ds) ==
  IF ds = "" THEN 0
  ELSE 10 * DecimalValue(Substring(ds, 1, Len(ds) - 1)) + DigitValue(CharAt(ds, Len(ds)))

\* parseInt(str, 10) of a string without sign or leading blanks: the number its
\* leading digits write, NaN if it does not start with a digit
parseInt(str) ==
  LET end == SkipWhile(str, 1, Digits) IN
    IF end = 1 THEN NaN ELSE Number(DecimalValue(Substring(str, 1, end - 1)))

\* ${n} with leading zeros up to a width (date-fns addLeadingZeros)
RECURSIVE addLeadingZeros(_, _)
addLeadingZeros(text, width) ==
  IF Len(text) >= width THEN text ELSE addLeadingZeros("0" \o text, width)

-----------------------------------------------------------------------------
(* Dates: the Date of JavaScript, and the functions of date-fns the parser *)
(* calls.  A Date is held as the day number of its local calendar day,     *)
(* counted from 1970-01-01; the time of day never changes in the parser.   *)

\* the day number of a calendar day of the Gregorian calendar
DaysFromCivil(y, m, d) ==
  LET yy == IF m <= 2 THEN y - 1 ELSE y
      era == yy \div 400
      yoe == yy - era * 400
      mp == (m + 9) % 12
      doy == (153 * mp + 2) \div 5 + d - 1
      doe == yoe * 365 + yoe \div 4 - yoe \div 100 + doy
  IN  era * 146097 + doe - 719468

\* getFullYear, getMonth + 1 and getDate of a day number
CivilFromDays(n) ==
  LET z == n + 719468
      era == z \div 146097
      doe == z - era * 146097
      yoe == (doe - doe \div 1460 + doe \div 36524 - doe \div 146096) \div 365
      doy == doe - (365 * yoe + yoe \div 4 - yoe \div 100)
      mp == (5 * doy + 2) \div 153
      d == doy - (153 * mp + 2) \div 5 + 1
      m == IF mp < 10 THEN mp + 3 ELSE mp - 9
      y == yoe + era * 400 + (IF m <= 2 THEN 1 ELSE 0)
  IN  [year |-> y, month |-> m, day |-> d]

InvalidDate == [valid |-> FALSE, day |-> 0]
\* a Date on day number n: Invalid Date beyond the 100,000,000 days that a time
\* value spans on either side of 1970-01-01
DateOn(n) ==
  IF n > -100000000 /\ n < 100000000 THEN [valid |-> TRUE, day |-> n] ELSE InvalidDate

\* new Date(), on the current date
NewDate(date) == DateOn(DaysFromCivil(date.year, date.month, date.day))

\* date-fns isValid
isValid(date) == date.valid

\* Date.prototype.getDay: 0 is Sunday; 1970-01-01 was a Thursday
getDay(date) == (date.day + 4) % 7

\* a faulty variant of addDays: the day of the month is moved, with no carry
\* into the next month
addDays_noCarry(date, amount) ==
  LET c == CivilFromDays(date.day) IN
    DateOn(DaysFromCivil(c.year, c.month, 1) + ((c.day - 1 + amount) % 28))

\* date-fns addDays: setDate(getDate() + amount)
addDays(date, amount) ==
  IF amount = 0 THEN date ELSE DateOn(date.day + amount)

\* date-fns add, of a duration of days and weeks
add(date, duration) ==
  IF duration.days # 0 \/ duration.weeks # 0
  THEN addDays(date, duration.days + duration.weeks * 7)
  ELSE date

Days(n) == [days |-> n, weeks |-> 0]
Weeks(n) == [days |-> 0, weeks |-> n]

\* a faulty variant of nextDay: a date that falls on the day is its own next
nextDay_orSame(date, day) ==
  LET delta == day - getDay(date) IN
    addDays(date, IF delta < 0 THEN delta + 7 ELSE delta)

\* date-fns nextDay, behind nextMonday .. nextSunday
nextDay(date, day) ==
  LET delta == day - getDay(date) IN
    addDays(date, IF delta <= 0 THEN delta + 7 ELSE delta)

nextMonday(date) == nextDay(date, 1)

\* date-fns format(date, 'yyyy-MM-dd'); it throws a RangeError on Invalid Date
format(date) ==
  IF ~isValid(date) THEN Throw(NewError("Invalid time value"))
  ELSE LET c == CivilFromDays(date.day)
           year == IF c.year > 0 THEN c.year ELSE 1 - c.year
       IN  Normal(Str(addLeadingZeros(ToString(year), 4) \o "-" \o
                      addLeadingZeros(ToString(c.month), 2) \o "-" \o
                      addLeadingZeros(ToString(c.day), 2)))

\* a faulty variant of the leap year rule: no century is a leap year
isLeapYearIndex_noCentury(year) == year % 4 = 0 /\ year % 100 # 0

\* date-fns isLeapYearIndex
isLeapYearIndex(year) == year % 400 = 0 \/ (year % 4 = 0 /\ year % 100 # 0)

DAYS_IN_MONTH == <<31, 28, 31, 30, 31, 30, 31, 31, 30, 31, 30, 31>>
DAYS_IN_MONTH_LEAP_YEAR == <<31, 29, 31, 30, 31, 30, 31, 31, 30, 31, 30, 31>>

\* a faulty variant of the validation: any day up to 31 passes in any month
ValidateDate_anyMonth(year, month, day) ==
  year > 0 /\ month \in 1..12 /\ day \in 1..31

\* the validate steps of date-fns parse for yyyy, MM and dd
ValidateDate(year, month, day) ==
  /\ year > 0
  /\ month \in 1..12
  /\ day >= 1
  /\ day <= IF isLeapYearIndex(year) THEN DAYS_IN_MONTH_LEAP_YEAR[month]
            ELSE DAYS_IN_MONTH[month]

\* date-fns parse(text, 'yyyy-MM-dd', new Date()) of four, two and two digits
parse(text) ==
  LET year == DecimalValue(Substring(text, 1, 4))
      month == DecimalValue(Substring(text, 6, 7))
      day == DecimalValue(Substring(text, 9, 10))
  IN  IF ValidateDate(year, month, day) THEN DateOn(DaysFromCivil(year, month, day))
      ELSE InvalidDate

-----------------------------------------------------------------------------
(* parseHumanDate *)

WORD_TO_NUMBER ==
  [one |-> 1, two |-> 2, three |-> 3, four |-> 4, five |-> 5,
   six |-> 6, seven |-> 7, eight |-> 8, nine |-> 9, ten |-> 10]

\* the day of the week each function of DAY_FUNCTIONS goes to (nextMonday: 1)
DAY_FUNCTIONS ==
  [monday |-> 1, tuesday |-> 2, wednesday |-> 3, thursday |-> 4,
   friday |-> 5, saturday |-> 6, sunday |-> 0]

\* what the alternation (days?|weeks?) matches
UnitWords == {"day", "days", "week", "weeks"}

NoMatch == [matched |-> FALSE, groups |-> <<>>]
Match(groups) == [matched |-> TRUE, groups |-> groups]

\* /^(\d{4})-(\d{2})-(\d{2})$/
isoDateMatch(s) ==
  IF /\ Len(s) = 10
     /\ \A i \in {1, 2, 3, 4, 6, 7, 9, 10} : CharAt(s, i) \in Digits
     /\ CharAt(s, 5) = "-"
     /\ CharAt(s, 8) = "-"
  THEN Match(<<Substring(s, 1, 4), Substring(s, 6, 7), Substring(s, 9, 10)>>)
  ELSE NoMatch

\* /^next\s+(\w+)$/
nextDayMatch(s) ==
  LET a == SkipWhile(s, 5, WhiteSpace) IN
    IF /\ StartsWithAt(s, 1, "next")
       /\ a > 5
       /\ a <= Len(s)
       /\ SkipWhile(s, a, WordChars) = Len(s) + 1
    THEN Match(<<From(s, a)>>)
    ELSE NoMatch

\* /\s+from\s+now$/ from position c of s
FromNowTail(s, c) ==
  LET d == SkipWhile(s, c, WhiteSpace)
      f == SkipWhile(s, d + 4, WhiteSpace)
  IN  /\ d > c
      /\ StartsWithAt(s, d, "from")
      /\ f > d + 4
      /\ EndsAt(s, f, "now")

\* /^(\w+)\s+(days?|weeks?)\s+from\s+now$/
fromNowMatch(s) ==
  LET a == SkipWhile(s, 1, WordChars)
      b == SkipWhile(s, a, WhiteSpace)
      units == {u \in UnitWords : StartsWithAt(s, b, u) /\ FromNowTail(s, b + Len(u))}
  IN  IF a > 1 /\ b > a /\ units # {}
      THEN Match(<<Substring(s, 1, a - 1), CHOOSE u \in units : TRUE>>)
      ELSE NoMatch

\* a faulty variant of the addition pattern: blanks are required around the
\* plus sign and before the unit
additionMatch_spaced(s) ==
  LET a == SkipWhile(s, 6, WhiteSpace)
      b == SkipWhile(s, a + 1, WhiteSpace)
      c == SkipWhile(s, b, Digits)
      d == SkipWhile(s, c, WhiteSpace)
  IN  IF /\ StartsWithAt(s, 1, "today")
         /\ a > 6
         /\ CharAt(s, a) = "+"
         /\ b > a + 1
         /\ c > b
         /\ d > c
         /\ From(s, d) \in UnitWords
      THEN Match(<<Substring(s, b, c - 1), From(s, d)>>)
      ELSE NoMatch

\* /^today\s*\+\s*(\d+)\s*(days?|weeks?)$/
additionMatch(s) ==
  LET a == SkipWhile(s, 6, WhiteSpace)
      b == SkipWhile(s, a + 1, WhiteSpace)
      c == SkipWhile(s, b, Digits)
      d == SkipWhile(s, c, WhiteSpace)
  IN  IF /\ StartsWithAt(s, 1, "today")
         /\ CharAt(s, a) = "+"
         /\ c > b
         /\ From(s, d) \in UnitWords
      THEN Match(<<Substring(s, b, c - 1), From(s, d)>>)
      ELSE NoMatch

\* the names an object literal has from Object.prototype that a lower-case
\* word can spell
ObjectPrototypeKeys == {"constructor", "__proto__"}

\* throw new Error(`Unable to parse date: ${input}`)
UnableToParse(input) == Throw(NewError("Unable to parse date: " \o input))

\* the branch of an input of the shape YYYY-MM-DD
parseHumanDate_iso(input, normalized) ==
  IF ~isValid(parse(normalized)) THEN UnableToParse(input) ELSE Normal(Str(normalized))

\* a faulty variant of "next week": a week from now
parseHumanDate_nextWeek_inAWeek(date) == format(add(date, Weeks(1)))

\* the branch of "next week"
parseHumanDate_nextWeek(date) == format(nextMonday(date))

\* the branch is left without a result
FallThrough == [value |-> Undefined, thrown |-> Undefined]

\* the branch of "next <word>": DAY_FUNCTIONS[dayName], and its call if truthy.
\* "constructor" finds Object, which hands the Date back; "__proto__" finds
\* Object.prototype, which cannot be called
parseHumanDate_nextDay(date, dayName) ==
  IF dayName \in DOMAIN DAY_FUNCTIONS THEN format(nextDay(date, DAY_FUNCTIONS[dayName]))
  ELSE IF dayName = "constructor" THEN format(date)
  ELSE IF dayName = "__proto__" THEN Throw(NewError("dayFunction is not a function"))
  ELSE FallThrough

\* a faulty variant of the quantity: the table of words is one off
Quantity_offByOne(quantityStr) ==
  IF quantityStr \in DOMAIN WORD_TO_NUMBER THEN Number(WORD_TO_NUMBER[quantityStr] - 1)
  ELSE parseInt(quantityStr)

\* WORD_TO_NUMBER[quantityStr] || parseInt(quantityStr, 10); what is found on
\* Object.prototype is truthy and no number
Quantity(quantityStr) ==
  IF quantityStr \in DOMAIN WORD_TO_NUMBER THEN Number(WORD_TO_NUMBER[quantityStr])
  ELSE IF quantityStr \in ObjectPrototypeKeys THEN NaN
  ELSE parseInt(quantityStr)

\* both branches of a quantity and a unit, from the isNaN test on
parseHumanDate_add(input, date, quantity, unit) ==
  IF isNaN(quantity) THEN UnableToParse(input)
  ELSE format(add(date, IF StartsWithAt(unit, 1, "week") THEN Weeks(quantity.number)
                        ELSE Days(quantity.number)))

\* what is left of parseHumanDate after "next week"
parseHumanDate_patterns(input, normalized, date) ==
  LET next == nextDayMatch(normalized)
      nextResult == IF next.matched THEN parseHumanDate_nextDay(date, next.groups[1])
                    ELSE FallThrough
      fromNow == fromNowMatch(normalized)
      addition == additionMatch(normalized)
  IN  IF nextResult # FallThrough THEN nextResult
      ELSE IF fromNow.matched
        THEN parseHumanDate_add(input, date, Quantity(fromNow.groups[1]), fromNow.groups[2])
      ELSE IF addition.matched
        THEN parseHumanDate_add(input, date, parseInt(addition.groups[1]), addition.groups[2])
      ELSE UnableToParse(input)

\* parseHumanDate(input), called on the calendar date `date`
parseHumanDate(input, date) ==
  LET normalized == toLowerCase(trim(input))
      nowDate == NewDate(date)
  IN  IF normalized = "" THEN Throw(NewError("Unable to parse date: "))
      ELSE IF isoDateMatch(normalized).matched THEN parseHumanDate_iso(input, normalized)
      ELSE IF normalized = "today" THEN format(nowDate)
      ELSE IF normalized = "tomorrow" THEN format(add(nowDate, Days(1)))
      ELSE IF normalized = "yesterday" THEN format(add(nowDate, Days(-1)))
      ELSE IF normalized = "next week" THEN parseHumanDate_nextWeek(nowDate)
      ELSE parseHumanDate_patterns(input, normalized, nowDate)

-----------------------------------------------------------------------------
(* Tool invocations and handlers *)

Date(y, m, d) == [year |-> y, month |-> m, day |-> d]

\* the date the tests freeze the clock on, a Tuesday
TestClockDate == Date(2025, 11, 18)

\* the phrases handed to parse_date
DateStrings == {"Hello", "next week"}
Ids == {"inv-123", "inv-456"}
\* the tool names and arguments ({ message }) of the invocations: every tool
\* with the message "Hello", and the empty message where it changes the outcome
Calls ==
  (ToolNames \X {"Hello"}) \cup ({"test_tool", "rejects_tool"} \X {""})
    \cup ({"parse_date"} \X DateStrings)
Invocation(id, c) == [id |-> id, name |-> c[1], parameters |-> c[2]]
\* { id, name, parameters: { message } }
Invocations == {Invocation(id, c) : id \in Ids, c \in Calls}
\* the id of the invocation at index i of a list: the caller keeps the ids of a
\* list distinct
IdAt(i) == "inv-" \o ToString(i)
\* the lists handed to executeTools
Batches ==
  UNION {{[i \in 1..n |-> Invocation(IdAt(i), c[i])] : c \in [1..n -> Calls]} :
           n \in 0..MaxBatch}

\* the objects the handler of parse_date returns, as their JSON text
DateParsed(date, dateString) ==
  [type |-> "object",
   data |-> "{\"success\":true,\"date\":\"" \o date \o "\",\"originalInput\":\""
              \o dateString \o "\"}"]
DateNotParsed(message, dateString) ==
  [type |-> "object",
   data |-> "{\"success\":false,\"error\":\"" \o message \o "\",\"originalInput\":\""
              \o dateString \o "\"}"]

\* the handler of parse_date: the failure of parseHumanDate is caught and
\* returned as an object
dateParserTool_try(r, dateString) ==
  IF r.thrown = Undefined
    THEN DateParsed(r.value.data, dateString)
    ELSE DateNotParsed(IF InstanceOfError(r.thrown) THEN r.thrown.data
                                                    ELSE "Unknown error",
                       dateString)

dateParserTool_execute(dateString) ==
  dateParserTool_try(parseHumanDate(dateString, today), dateString)

\* what a call of tool.execute(params) does: it returns a promise that is
\* fulfilled ("return") or rejected ("reject"), or it throws before returning one
HandlerOutcome(execute, params) ==
  CASE execute = "echo"         -> [kind |-> "return", value |-> EchoObject(params)]
    [] execute = "noop"         -> [kind |-> "return", value |-> Undefined]
    [] execute = "throws"       -> [kind |-> "throw",  value |-> NewError(params)]
    [] execute = "rejects"      -> [kind |-> "reject", value |-> NewError(params)]
    [] execute = "rejectsValue" -> [kind |-> "reject", value |-> Str(params)]
    [] execute = "parseDate"    -> [kind |-> "return",
                                    value |-> dateParserTool_execute(params)]

-----------------------------------------------------------------------------
(* executeTool *)

\* a faulty variant of the rounding: the fraction of a millisecond is cut off
MathRound_floor(ticks) == ticks \div TicksPerMs

\* Math.round of a span of clock ticks, in milliseconds
MathRound(ticks) == (2 * ticks + TicksPerMs) \div (2 * TicksPerMs)

Fulfilled(v) == [state |-> "fulfilled", value |-> v]
Rejected(e) == [state |-> "rejected", value |-> e]
Pending == [state |-> "pending", value |-> Undefined]

\* a faulty variant of the not-found message: the name is not quoted
NotFoundMessage_unquoted(n) == "Tool " \o n \o " not found"

NotFoundMessage(n) == "Tool \"" \o n \o "\" not found"

\* a faulty variant of the success object: id and name change places
SuccessResult_swapped(inv, result, startTime, t) ==
  [id |-> inv.name, name |-> inv.id, result |-> result, error |-> Undefined,
   durationMs |-> MathRound(t - startTime)]

\* the object the try block returns
SuccessResult(inv, result, startTime, t) ==
  [id |-> inv.id, name |-> inv.name, result |-> result, error |-> Undefined,
   durationMs |-> MathRound(t - startTime)]

\* a faulty variant of the error object: the message of the error is dropped
ErrorResult_generic(inv, error, startTime, t) ==
  [id |-> inv.id, name |-> inv.name, result |-> Undefined,
   error |-> Str("Unknown error"), durationMs |-> MathRound(t - startTime)]

\* the object the catch block returns
ErrorResult(inv, error, startTime, t) ==
  [id |-> inv.id, name |-> inv.name, result |-> Undefined,
   error |-> IF InstanceOfError(error) THEN Str(error.data) ELSE Str("Unknown error"),
   durationMs |-> MathRound(t - startTime)]

\* a faulty variant of the catch block: the error is thrown on
executeTool_catch_rethrow(inv, error, startTime, t) == Rejected(error)

\* the catch block: how the promise of executeTool settles on a thrown error
executeTool_catch(inv, error, startTime, t) ==
  Fulfilled(ErrorResult(inv, error, startTime, t))

\* the promise of a handler that was not called
NoOutcome == [kind |-> "none", value |-> Undefined]

\* one activation of executeTool: its promise, its locals, the handler calls
\* it has made, and what the promise it awaits settles to
Task(promise, startTime, tool, calls, outcome) ==
  [state |-> promise.state, value |-> promise.value, startTime |-> startTime,
   tool |-> tool, calls |-> calls, outcome |-> outcome]

\* the call of the handler, which throws or returns the promise to await
executeTool_call(inv, tool, out, t) ==
  IF out.kind = "throw"
    THEN Task(executeTool_catch(inv, out.value, t, t), t, tool, <<inv.parameters>>, out)
    ELSE Task(Pending, t, tool, <<inv.parameters>>, out)

\* executeTool up to its await: the lookup, the not-found throw, the handler call
executeTool_start(inv, registry, t) ==
  LET got == ToolRegistry_get(registry, inv.name) IN
    IF got.thrown # Undefined
      THEN Task(executeTool_catch(inv, got.thrown, t, t), t, Undefined, <<>>, NoOutcome)
    ELSE IF got.value = Undefined
      THEN Task(executeTool_catch(inv, NewError(NotFoundMessage(inv.name)), t, t),
                t, Undefined, <<>>, NoOutcome)
    ELSE executeTool_call(inv, got.value,
                          HandlerOutcome(got.value.execute, inv.parameters), t)

\* a faulty variant of the resumption: a handler that failed is called once more
executeTool_resume_retry(inv, task, t) ==
  LET out == task.outcome IN
    IF out.kind = "return"
      THEN Task(Fulfilled(SuccessResult(inv, out.value, task.startTime, t)),
                task.startTime, task.tool, task.calls, out)
      ELSE Task(executeTool_catch(inv, out.value, task.startTime, t),
                task.startTime, task.tool, Append(task.calls, inv.parameters), out)

\* executeTool after its await: the handler's promise has settled
executeTool_resume(inv, task, t) ==
  LET out == task.outcome IN
    IF out.kind = "return"
      THEN Task(Fulfilled(SuccessResult(inv, out.value, task.startTime, t)),
                task.startTime, task.tool, task.calls, out)
      ELSE Task(executeTool_catch(inv, out.value, task.startTime, t),
                task.startTime, task.tool, task.calls, out)

-----------------------------------------------------------------------------
(* executeTools *)

\* a faulty variant of Promise.all: the values in the order the promises were fulfilled
\* (the activations of a list start together, so by elapsed time)
PromiseAll_byCompletion(ps) ==
  IF \A i \in 1..Len(ps) : ps[i].state = "fulfilled"
    THEN LET n == Len(ps)
             key(i) == ps[i].value.durationMs * (n + 1) + i
             order == CHOOSE f \in [1..n -> 1..n] :
                        /\ \A i, j \in 1..n : i # j => f[i] # f[j]
                        /\ \A i, j \in 1..n : i < j => key(f[i]) < key(f[j])
         IN  Fulfilled(SubSeq([i \in 1..n |-> ps[order[i]].value], 1, n))
    ELSE Pending

\* a faulty variant of Promise.all: a result that carries an error rejects the list
PromiseAll_failFast(ps) ==
  IF \E i \in 1..Len(ps) : ps[i].state = "fulfilled" /\ ps[i].value.error # Undefined
    THEN Rejected(NewError("a tool failed"))
  ELSE IF \A i \in 1..Len(ps) : ps[i].state = "fulfilled"
    THEN Fulfilled(SubSeq([i \in 1..Len(ps) |-> ps[i].value], 1, Len(ps)))
  ELSE Pending

\* a faulty variant of Promise.all: fulfilled as soon as one promise is, with the
\* values there are by then
PromiseAll_any(ps) ==
  IF \E i \in 1..Len(ps) : ps[i].state = "fulfilled"
    THEN Fulfilled(SubSeq([i \in 1..Len(ps) |-> ps[i].value], 1, Len(ps)))
    ELSE IF Len(ps) = 0 THEN Fulfilled(<<>>) ELSE Pending

\* Promise.all over the promises of the activations: rejected with the reason of
\* the first rejected one, fulfilled with the values in the order of the
\* promises once all are fulfilled
PromiseAll(ps) ==
  IF \E i \in 1..Len(ps) : ps[i].state = "rejected"
    THEN Rejected(ps[CHOOSE i \in 1..Len(ps) :
                       /\ ps[i].state = "rejected"
                       /\ \A j \in 1..(i - 1) : ps[j].state # "rejected"].value)
  ELSE IF \A i \in 1..Len(ps) : ps[i].state = "fulfilled"
    THEN Fulfilled(SubSeq([i \in 1..Len(ps) |-> ps[i].value], 1, Len(ps)))
  ELSE Pending

\* registry is history: the map as it was when the call was made
NoCall == [kind |-> "none", invocations |-> <<>>, status |-> "idle", registry |-> <<>>]
Running == call.status = "running"
RegistryVars == <<tools, regLog, lastOp>>

\* a faulty variant of the map: only the first activation is started, the rest
\* wait for their turn
MapExecuteTool_firstOnly(invocations, registry, t) ==
  SubSeq([i \in 1..Len(invocations) |->
            IF i = 1 THEN executeTool_start(invocations[i], registry, t)
                     ELSE Task(Pending, t, Undefined, <<>>, NoOutcome)],
         1, Len(invocations))

\* invocations.map(executeTool): every activation runs up to its await, in the
\* order of the list, before anything else runs
MapExecuteTool(invocations, registry, t) ==
  SubSeq([i \in 1..Len(invocations) |-> executeTool_start(invocations[i], registry, t)],
         1, Len(invocations))

RECURSIVE MapExecuteTool_tools(_, _)
\* the registry after the lookups of the activations of a list
MapExecuteTool_tools(invocations, registry) ==
  IF invocations = <<>> THEN registry
  ELSE MapExecuteTool_tools(Tail(invocations),
                            ToolRegistry_get_tools(registry, Head(invocations).name))

\* the promise of an activation
PromiseOf(task) == [state |-> task.state, value |-> task.value]

\* a caller calls executeTool(inv)
ExecuteToolCall(inv) ==
  /\ call = NoCall
  /\ call' = [kind |-> "executeTool", invocations |-> <<inv>>, status |-> "running",
              registry |-> tools]
  /\ tasks' = <<executeTool_start(inv, tools, now)>>
  /\ joined' = PromiseOf(tasks'[1])
  /\ returned' = Pending
  /\ tools' = ToolRegistry_get_tools(tools, inv.name)
  /\ UNCHANGED <<now, regLog, lastOp>>
  /\ UNCHANGED DateVars
  /\ UNCHANGED ChecklistVars

\* a caller calls executeTools(invocations)
ExecuteToolsCall(invocations) ==
  /\ call = NoCall
  /\ call' = [kind |-> "executeTools", invocations |-> invocations,
              status |-> "running", registry |-> tools]
  /\ tasks' = MapExecuteTool(invocations, tools, now)
  /\ joined' = PromiseAll(tasks')
  /\ returned' = Pending
  /\ tools' = MapExecuteTool_tools(invocations, tools)
  /\ UNCHANGED <<now, regLog, lastOp>>
  /\ UNCHANGED DateVars
  /\ UNCHANGED ChecklistVars

\* the handler's promise of activation i settles and executeTool runs to its end
Settle(i) ==
  /\ Running
  /\ i \in 1..Len(tasks)
  /\ tasks[i].state = "pending"
  /\ tasks' = [tasks EXCEPT ![i] = executeTool_resume(call.invocations[i], tasks[i], now)]
  /\ joined' = IF joined.state # "pending" THEN joined
               ELSE IF call.kind = "executeTools" THEN PromiseAll(tasks')
               ELSE PromiseOf(tasks'[1])
  /\ UNCHANGED <<now, call, returned>>
  /\ UNCHANGED RegistryVars
  /\ UNCHANGED DateVars
  /\ UNCHANGED ChecklistVars

\* the caller's await ends: it gets the value, or the rejection is raised to it
Return ==
  /\ Running
  /\ joined.state # "pending"
  /\ returned' = joined
  /\ call' = [call EXCEPT !.status = "returned"]
  /\ UNCHANGED <<now, tasks, joined>>
  /\ UNCHANGED RegistryVars
  /\ UNCHANGED DateVars
  /\ UNCHANGED ChecklistVars

\* the caller is done with what it got back; the executor keeps nothing of a call
Forget ==
  /\ call.status = "returned"
  /\ call' = NoCall
  /\ tasks' = <<>>
  /\ joined' = Pending
  /\ returned' = Pending
  /\ UNCHANGED now
  /\ UNCHANGED RegistryVars
  /\ UNCHANGED DateVars
  /\ UNCHANGED ChecklistVars

\* time passes while a handler is at work
Tick ==
  /\ \E i \in 1..Len(tasks) : tasks[i].state = "pending"
  /\ now < MaxClock
  /\ now' = now + 1
  /\ UNCHANGED <<call, tasks, joined, returned>>
  /\ UNCHANGED RegistryVars
  /\ UNCHANGED DateVars
  /\ UNCHANGED ChecklistVars

RECURSIVE RegisterEach(_, _, _)
\* the map and the log after register was called with each of defs[i..] in turn
RegisterEach(m, log, defs) ==
  IF defs = <<>> THEN [tools |-> m, log |-> log]
  ELSE LET r == ToolRegistry_register(m, Head(defs)) IN
         RegisterEach(r.tools, Append(log, [tool |-> Head(defs), thrown |-> r.thrown]),
                      Tail(defs))

\* the module that registers the tools is loaded: its register calls run in turn
LoadTools ==
  /\ regLog = <<>>
  /\ LET r == RegisterEach(tools, regLog, StartupTools) IN
       /\ tools' = r.tools
       /\ regLog' = r.log
       /\ lastOp' = [op |-> "register", arg |-> r.log[Len(r.log)].tool,
                     value |-> Undefined, thrown |-> r.log[Len(r.log)].thrown]
  /\ UNCHANGED ExecutorVars
  /\ UNCHANGED DateVars
  /\ UNCHANGED ChecklistVars

-----------------------------------------------------------------------------
(* Callers of parseHumanDate: the dates it is called on and the strings it *)
(* is called with                                                          *)

\* current dates: a whole week, and the ends of months and years, of short
\* months and of leap and non-leap Februaries
Todays ==
  {Date(2025, 11, d) : d \in 18..24} \cup
  {Date(2024, 2, 28), Date(2024, 2, 29), Date(2024, 3, 1), Date(2023, 2, 28),
   Date(2023, 3, 1), Date(2024, 12, 31), Date(2025, 1, 1), Date(2025, 12, 31),
   Date(2025, 4, 30), Date(2100, 2, 28)}
\* the current dates the strings of the shape YYYY-MM-DD are tried on
IsoTodays == {TestClockDate, Date(2024, 2, 29), Date(2023, 3, 1), Date(2025, 12, 31)}

WeekdayNames == DOMAIN DAY_FUNCTIONS
NumberWords == DOMAIN WORD_TO_NUMBER

\* "2025-12-25" from 2025, 12 and 25
IsoText(y, m, d) ==
  addLeadingZeros(ToString(y), 4) \o "-" \o addLeadingZeros(ToString(m), 2) \o "-" \o
  addLeadingZeros(ToString(d), 2)

IsoYears == {0, 1, 1900, 2000, 2023, 2024, 2025, 9999}
IsoMonths == {0, 1, 2, 4, 12, 13}
IsoDays == {0, 1, 28, 29, 30, 31, 32, 45}
IsoInputs == {IsoText(y, m, d) : y \in IsoYears, m \in IsoMonths, d \in IsoDays}

\* "two days from now"
FromNowPhrase(quantity, unit) == quantity \o " " \o unit \o " from now"
\* "today + 2 days", with the blanks of gaps around the plus sign and before
\* the unit
AdditionPhrase(quantity, unit, gaps) ==
  "today" \o gaps[1] \o "+" \o gaps[2] \o quantity \o gaps[3] \o unit

DigitStrings ==
  {ToString(n) : n \in 0..11} \cup {"007", "3000000", "99999999"}
\* quantities that are neither digits nor a word of the table
OtherQuantities == {"eleven", "2x", "x2", "zero", "_", "constructor", "__proto__"}
NoGaps == <<"", "", "">>
Blanks == <<" ", " ", " ">>
Gaps == {NoGaps, Blanks, <<" ", " ", "">>, <<"", "", " ">>, <<"  ", "\t", " ">>}

FromNowInputs ==
  {FromNowPhrase(q, u) : q \in NumberWords \cup DigitStrings \cup OtherQuantities,
                         u \in UnitWords}
AdditionInputs ==
  {AdditionPhrase(q, u, g) : q \in DigitStrings, u \in UnitWords, g \in Gaps}

KeywordInputs ==
  {"today", "tomorrow", "yesterday", "next week", "TODAY", "Next Week", "next Friday",
   " tomorrow ", "next  week", "next\tmonday"} \cup
  {"next " \o w : w \in WeekdayNames \cup {"funday", "constructor", "__proto__"}}

\* strings no pattern is made for
OtherInputs ==
  {"", " ", "  ", "\t", " \n ", "invalid date string", "gibberish", "next",
   "2025-1-05", "2025/12/25", "25-12-2025", "2025-12-25x", " 2025-12-25 ",
   "today + two days", "today - 2 days", "2 days ago", "two days", "2 months from now",
   "2 days from  now", "days from now"}

PhraseInputs == KeywordInputs \cup FromNowInputs \cup AdditionInputs \cup OtherInputs

\* other spellings of the phrase x that a caller may take for the same request
Respellings(x) ==
  (IF x = "next week" THEN {"next monday"} ELSE {}) \cup
  {FromNowPhrase(ToString(WORD_TO_NUMBER[w]), u) :
     <<w, u>> \in {p \in NumberWords \X UnitWords : FromNowPhrase(p[1], p[2]) = x}} \cup
  UNION {{FromNowPhrase(p[1], p[2]), AdditionPhrase(p[1], p[2], NoGaps),
          AdditionPhrase(p[1], p[2], Blanks)} :
     p \in {p \in DigitStrings \X UnitWords :
              StartsWithAt(x, 1, "today") /\ \E g \in Gaps : AdditionPhrase(p[1], p[2], g) = x}}

\* one call of parseHumanDate and how it ended
DateCall(x) == [input |-> x, outcome |-> parseHumanDate(x, today)]

\* a caller hands the string to parseHumanDate
ParseInput ==
  /\ dateCalls = <<>>
  /\ dateCalls' = <<DateCall(dateInput)>>
  /\ UNCHANGED <<today, dateInput>>
  /\ UNCHANGED ChecklistVars
  /\ UNCHANGED RegistryVars
  /\ UNCHANGED ExecutorVars

\* the caller hands the date it got back to parseHumanDate again
ParseOutput ==
  /\ Len(dateCalls) = 1
  /\ dateCalls[1].outcome.thrown = Undefined
  /\ dateCalls' = Append(dateCalls, DateCall(dateCalls[1].outcome.value.data))
  /\ UNCHANGED <<today, dateInput>>
  /\ UNCHANGED ChecklistVars
  /\ UNCHANGED RegistryVars
  /\ UNCHANGED ExecutorVars

\* the caller asks again in another spelling
ParseRespelled(y) ==
  /\ Len(dateCalls) = 1
  /\ y # dateInput
  /\ dateCalls' = Append(dateCalls, DateCall(y))
  /\ UNCHANGED <<today, dateInput>>
  /\ UNCHANGED ChecklistVars
  /\ UNCHANGED RegistryVars
  /\ UNCHANGED ExecutorVars

ToUpperChar(c) ==
  IF \E i \in 1..Len(LowerCase) : CharAt(LowerCase, i) = c
  THEN CharAt(UpperCase, CHOOSE i \in 1..Len(LowerCase) : CharAt(LowerCase, i) = c)
  ELSE c

RECURSIVE toUpperCase(_)
\* the string in capital letters
toUpperCase(s) ==
  IF s = "" THEN "" ELSE ToUpperChar(CharAt(s, 1)) \o toUpperCase(From(s, 2))

\* the string with every second letter a capital, the first one first
RECURSIVE AlternateCase(_)
AlternateCase(s) ==
  IF s = "" THEN ""
  ELSE ToUpperChar(CharAt(s, 1)) \o CharAt(s, 2) \o AlternateCase(From(s, 3))

\* the same string in other letter case
Recasings(x) == {toUpperCase(x), AlternateCase(x)}
\* the same string with blanks around it
Paddings(x) == {" " \o x, "\t" \o x \o " \n"}

\* the caller asks again in other letter case or with blanks around the string
ParseRestyled(y) ==
  /\ Len(dateCalls) = 1
  /\ y # dateInput
  /\ dateCalls' = Append(dateCalls, DateCall(y))
  /\ UNCHANGED <<today, dateInput>>
  /\ UNCHANGED ChecklistVars
  /\ UNCHANGED RegistryVars
  /\ UNCHANGED ExecutorVars

-----------------------------------------------------------------------------
(* checklistTool.execute: the handler of create_checklist, and the         *)
(* database it writes to                                                   *)

EmptyDb == [checklists |-> <<>>, checklistItems |-> <<>>]

\* nanoid(): the n-th id handed out
nanoid(n) == "id-" \o ToString(n)

\* params.items: absent, a string where a list is due, or a list; an element
\* of the list is an object, or null
NoItems == [kind |-> "undefined", elems |-> <<>>, text |-> ""]
ItemsText(t) == [kind |-> "string", elems |-> <<>>, text |-> t]
ItemsList(elems) == [kind |-> "array", elems |-> elems, text |-> ""]
\* { item, category, quantity }; category "" and quantity 0 when left out
Item(i, c, q) == [isObject |-> TRUE, item |-> i, category |-> c, quantity |-> q]
NullItem == [isObject |-> FALSE, item |-> "", category |-> "", quantity |-> 0]

ItemsValues ==
  {NoItems, ItemsText("Passport"), ItemsList(<<>>),
   ItemsList(<<Item("Passport", "Documents", 1)>>),
   ItemsList(<<Item("Passport", "Documents", 1), Item("Camera", "", 0)>>),
   ItemsList(<<Item("Passport", "Documents", 1), NullItem>>)}

ChecklistParams ==
  [conversationId : {Undefined, Str(""), Str("conv-123")},
   destination : {"Tokyo"},
   items : ItemsValues]

\* how an insert(...).values(...).returning() ends: the rows are written and
\* come back, or nothing is written and the promise is rejected.  The field
\* failure of an activation keeps, as history, what a failed insert threw
InsertOutcomes ==
  {[ok |-> TRUE, error |-> Undefined],
   [ok |-> FALSE, error |-> NewError("Database error")],
   [ok |-> FALSE, error |-> NewError("")],
   [ok |-> FALSE, error |-> Str("SQLITE_BUSY")]}

\* a value in a condition
Truthy(v) == v.type # "undefined" /\ v # Str("")

\* params.items.length; reading it from undefined throws
ItemsLength(items) ==
  IF items.kind = "array" THEN Len(items.elems) ELSE Len(items.text)

\* the results of the handler, every field of any of them in each
ChecklistFailure(message) ==
  [success |-> FALSE, error |-> Str(message), checklistId |-> Undefined,
   message |-> Undefined]
ChecklistSuccess(checklist, params) ==
  [success |-> TRUE, error |-> Undefined, checklistId |-> Str(checklist.id),
   message |-> Str("Created checklist for " \o params.destination \o " with " \o
                   ToString(ItemsLength(params.items)) \o " items")]

\* the catch block of the handler
checklist_catch(error) ==
  Fulfilled(ChecklistFailure(IF InstanceOfError(error) THEN error.data
                             ELSE "Failed to create checklist"))

NoRow == [id |-> "", conversationId |-> "", destination |-> ""]
NoParams == [conversationId |-> Undefined, destination |-> "", items |-> NoItems]
NoChecklistRun ==
  [pc |-> "idle", params |-> NoParams, checklist |-> NoRow, itemsToInsert |-> <<>>,
   promise |-> Pending, calls |-> 0, failure |-> Undefined]

\* the row of checklists the handler asks to insert
ChecklistRow(params, n) ==
  [id |-> nanoid(n), conversationId |-> params.conversationId.data,
   destination |-> params.destination]

\* params.items.map(...): the rows of checklistItems, with ids n + 1, n + 2, ..
ItemRows(items, checklist, n) ==
  SubSeq([k \in 1..Len(items.elems) |->
            [id |-> nanoid(n + k), checklistId |-> checklist.id,
             item |-> items.elems[k].item,
             category |-> items.elems[k].category,
             quantity |-> IF items.elems[k].quantity = 0 THEN 1
                          ELSE items.elems[k].quantity]],
         1, Len(items.elems))

\* the return statement at the end of the try block; reading the length of
\* items that are not there throws a TypeError
checklist_return(checklist, params) ==
  IF params.items.kind = "undefined"
  THEN checklist_catch(NewError("Cannot read properties of undefined (reading 'length')"))
  ELSE Fulfilled(ChecklistSuccess(checklist, params))

\* the first element of the list that is null; 0 when there is none
FirstNull(items) ==
  IF \E k \in 1..Len(items.elems) : ~items.elems[k].isObject
  THEN CHOOSE k \in 1..Len(items.elems) :
         /\ ~items.elems[k].isObject
         /\ \A j \in 1..(k - 1) : items.elems[j].isObject
  ELSE 0

\* the handler is called: it runs up to its first await, or returns at once
ChecklistExecute(params) ==
  /\ checklistRun.pc = "idle"
  /\ checklistRun.calls < MaxChecklistCalls
  /\ IF ~Truthy(params.conversationId)
     THEN /\ checklistRun' =
               [checklistRun EXCEPT !.pc = "done", !.params = params,
                                    !.calls = @ + 1, !.checklist = NoRow,
                                    !.failure = Undefined,
                                    !.itemsToInsert = <<>>,
                                    !.promise = Fulfilled(ChecklistFailure(
                                                  "conversationId is required"))]
          /\ UNCHANGED idsMade
     ELSE /\ checklistRun' =
               [checklistRun EXCEPT !.pc = "insertChecklist", !.params = params,
                                    !.calls = @ + 1,
                                    !.checklist = ChecklistRow(params, idsMade + 1),
                                    !.failure = Undefined,
                                    !.itemsToInsert = <<>>,
                                    !.promise = Pending]
          /\ idsMade' = idsMade + 1
  /\ UNCHANGED db
  /\ UNCHANGED RegistryVars
  /\ UNCHANGED ExecutorVars
  /\ UNCHANGED DateVars

\* the handler goes on after the checklist row is in: up to the insert of the
\* items, or to its end
checklist_afterInsert(run, n) ==
  LET items == run.params.items IN
    IF items.kind # "undefined" /\ ItemsLength(items) > 0
    THEN IF items.kind = "string"
         THEN [run |-> [run EXCEPT !.pc = "done",
                                   !.promise = checklist_catch(
                                     NewError("params.items.map is not a function"))],
               ids |-> n]
         ELSE IF FirstNull(items) # 0
         THEN [run |-> [run EXCEPT !.pc = "done",
                                   !.promise = checklist_catch(
                                     NewError("Cannot read properties of null (reading 'item')"))],
               ids |-> n + FirstNull(items)]
         ELSE [run |-> [run EXCEPT !.pc = "insertItems",
                                   !.itemsToInsert = ItemRows(items, run.checklist, n)],
               ids |-> n + Len(items.elems)]
    ELSE [run |-> [run EXCEPT !.pc = "done",
                              !.promise = checklist_return(run.checklist, run.params)],
          ids |-> n]

\* the insert into checklists ends
ChecklistInsertSettles(outcome) ==
  /\ checklistRun.pc = "insertChecklist"
  /\ IF outcome.ok
     THEN LET after == checklist_afterInsert(checklistRun, idsMade) IN
            /\ db' = [db EXCEPT !.checklists = Append(@, checklistRun.checklist)]
            /\ checklistRun' = after.run
            /\ idsMade' = after.ids
     ELSE /\ checklistRun' = [checklistRun EXCEPT !.pc = "done",
                                                  !.failure = outcome.error,
                                                  !.promise = checklist_catch(outcome.error)]
          /\ UNCHANGED <<db, idsMade>>
  /\ UNCHANGED RegistryVars
  /\ UNCHANGED ExecutorVars
  /\ UNCHANGED DateVars

\* the insert into checklistItems ends: all rows are written, or none
ItemsInsertSettles(outcome) ==
  /\ checklistRun.pc = "insertItems"
  /\ IF outcome.ok
     THEN /\ db' = [db EXCEPT !.checklistItems = @ \o checklistRun.itemsToInsert]
          /\ checklistRun' =
               [checklistRun EXCEPT !.pc = "done",
                                    !.promise = checklist_return(checklistRun.checklist,
                                                                 checklistRun.params)]
     ELSE /\ checklistRun' = [checklistRun EXCEPT !.pc = "done",
                                                  !.failure = outcome.error,
                                                  !.promise = checklist_catch(outcome.error)]
          /\ UNCHANGED db
  /\ UNCHANGED idsMade
  /\ UNCHANGED RegistryVars
  /\ UNCHANGED ExecutorVars
  /\ UNCHANGED DateVars

\* the caller has the result; the handler keeps nothing of the call
ChecklistForget ==
  /\ checklistRun.pc = "done"
  /\ checklistRun' = [NoChecklistRun EXCEPT !.calls = checklistRun.calls]
  /\ UNCHANGED <<db, idsMade>>
  /\ UNCHANGED RegistryVars
  /\ UNCHANGED ExecutorVars
  /\ UNCHANGED DateVars

Init ==
  /\ tools = <<>>
  /\ regLog = <<>>
  /\ lastOp = NoOp
  /\ now = 0
  /\ call = NoCall
  /\ tasks = <<>>
  /\ joined = Pending
  /\ returned = Pending
  /\ today = TestClockDate
  /\ dateInput = "today"
  /\ dateCalls = <<>>
  /\ db = EmptyDb
  /\ idsMade = 0
  /\ checklistRun = NoChecklistRun

Next ==
  \/ LoadTools
  \/ \E inv \in Invocations : ExecuteToolCall(inv)
  \/ \E invocations \in Batches : ExecuteToolsCall(invocations)
  \/ \E i \in 1..MaxBatch : Settle(i)
  \/ Return
  \/ Forget
  \/ Tick

Spec == Init /\ [][Next]_vars

\* what Settle and Return always change
Progress == <<call.status, [i \in 1..Len(tasks) |-> tasks[i].state]>>

\* the handlers of the model complete or fail in the end, and a caller whose
\* awaited promise has settled is resumed
SpecLive ==
  /\ Spec
  /\ \A i \in 1..MaxBatch : WF_Progress(Settle(i))
  /\ WF_Progress(Return)

NextRegistry ==
  \/ \E tool \in ToolDefs : Len(regLog) < MaxRegisterCalls /\ Register(tool)
  \/ \E name \in ToolNames : Get(name)
  \/ \E name \in ToolNames : Has(name)
  \/ GetAll

SpecRegistry == Init /\ [][NextRegistry]_vars

\* parseHumanDate on any of the dates, with any of the strings
InitDate ==
  /\ tools = <<>>
  /\ regLog = <<>>
  /\ lastOp = NoOp
  /\ now = 0
  /\ call = NoCall
  /\ tasks = <<>>
  /\ joined = Pending
  /\ returned = Pending
  /\ \/ today \in Todays /\ dateInput \in PhraseInputs
     \/ today \in IsoTodays /\ dateInput \in IsoInputs
  /\ dateCalls = <<>>
  /\ db = EmptyDb
  /\ idsMade = 0
  /\ checklistRun = NoChecklistRun

NextDate ==
  \/ ParseInput
  \/ ParseOutput
  \/ Len(dateCalls) = 1 /\ \E y \in Respellings(dateInput) : ParseRespelled(y)
  \/ Len(dateCalls) = 1 /\ \E y \in Recasings(dateInput) \cup Paddings(dateInput) :
       ParseRestyled(y)

SpecDate == InitDate /\ [][NextDate]_vars

NextChecklist ==
  \/ \E params \in ChecklistParams : ChecklistExecute(params)
  \/ \E outcome \in InsertOutcomes : ChecklistInsertSettles(outcome)
  \/ \E outcome \in InsertOutcomes : ItemsInsertSettles(outcome)
  \/ ChecklistForget

SpecChecklist == Init /\ [][NextChecklist]_vars

-----------------------------------------------------------------------------
(* Executor claims, over Spec *)

IsSet(v) == v # Undefined
TaskIds == 1..Len(tasks)
InvocationOf(i) == call.invocations[i]
\* the definition the registry held for invocation i when the call was made
RegisteredFor(i) == ToolRegistry_get(call.registry, InvocationOf(i).name).value
\* what the handler of invocation i does with the invocation's arguments
OutcomeOf(i) == HandlerOutcome(RegisteredFor(i).execute, InvocationOf(i).parameters)
NotFound(i) == RegisteredFor(i) = Undefined
HandlerRaises(i) == ~NotFound(i) /\ OutcomeOf(i).kind \in {"throw", "reject"}
HandlerReturns(i) == ~NotFound(i) /\ OutcomeOf(i).kind = "return"
Fails(i) == NotFound(i) \/ HandlerRaises(i)
Done(i) == tasks[i].state # "pending"
\* the results the caller got back, as a list
ReturnedResults ==
  IF call.kind = "executeTools" THEN returned.value ELSE <<returned.value>>
HasReturned == call.status = "returned" /\ returned.state = "fulfilled"
ExactlyOneSet(r) == IsSet(r.result) # IsSet(r.error)

\* C1: every ToolResult of executeTool, and every element of the list of
\* executeTools, has exactly one of result and error set, whatever the tool name
\* and whatever the handler returned or raised.
C1_ExactlyOneOfResultAndError ==
  /\ \A i \in TaskIds : tasks[i].state = "fulfilled" => ExactlyOneSet(tasks[i].value)
  /\ HasReturned =>
       \A i \in 1..Len(ReturnedResults) : ExactlyOneSet(ReturnedResults[i])

\* C2: executeTool and executeTools never raise to their caller: an unregistered
\* name, a handler that throws and a handler whose promise rejects each end as
\* the error field of a returned ToolResult.
C2_NeverRaises ==
  /\ \A i \in TaskIds : tasks[i].state # "rejected"
  /\ joined.state # "rejected"
  /\ returned.state # "rejected"
  /\ \A i \in TaskIds :
       (Fails(i) /\ Done(i)) =>
         /\ tasks[i].state = "fulfilled"
         /\ IsSet(tasks[i].value.error)
  /\ HasReturned =>
       \A i \in TaskIds : Fails(i) => IsSet(ReturnedResults[i].error)

\* a list with a handler that throws and a handler whose promise rejects has
\* been answered
C2_Witness ==
  /\ HasReturned
  /\ call.kind = "executeTools"
  /\ \E i, j \in TaskIds :
       /\ ~NotFound(i) /\ OutcomeOf(i).kind = "throw"
       /\ ~NotFound(j) /\ OutcomeOf(j).kind = "reject"

\* C3: executeTools on N invocations returns N results, and the result at index
\* i carries the id and the tool name of the invocation at index i, for every mix
\* of outcomes and every order of completion.
C3_ResultsAlignedWithInvocations ==
  (HasReturned /\ call.kind = "executeTools") =>
    /\ Len(returned.value) = Len(call.invocations)
    /\ \A i \in 1..Len(call.invocations) :
         /\ returned.value[i].id = InvocationOf(i).id
         /\ returned.value[i].name = InvocationOf(i).name

\* a success and a failure were returned, the second invocation having
\* completed before the first
C3_Witness ==
  /\ HasReturned
  /\ call.kind = "executeTools"
  /\ Len(returned.value) = 2
  /\ returned.value[1].durationMs > returned.value[2].durationMs
  /\ IsSet(returned.value[1].result)
  /\ IsSet(returned.value[2].error)

\* what invocation i gets when it is executed alone: its result and its error
AloneResult(i) ==
  IF NotFound(i)
    THEN [result |-> Undefined, error |-> Str(NotFoundMessage(InvocationOf(i).name))]
  ELSE IF OutcomeOf(i).kind = "return"
    THEN [result |-> OutcomeOf(i).value, error |-> Undefined]
  ELSE [result |-> Undefined,
        error |-> IF InstanceOfError(OutcomeOf(i).value)
                    THEN Str(OutcomeOf(i).value.data) ELSE Str("Unknown error")]
SameAsAlone(r, i) ==
  /\ r.id = InvocationOf(i).id
  /\ r.name = InvocationOf(i).name
  /\ r.result = AloneResult(i).result
  /\ r.error = AloneResult(i).error

\* C4: in a list run by executeTools the failure of one invocation changes the
\* outcome of no other: the handler of each other invocation is still called, its
\* activation is not ended by the failure, and it gets the result it gets alone.
C4_FailureIsIsolated ==
  call.kind = "executeTools" =>
    \A j \in TaskIds : (Fails(j) /\ Done(j)) =>
      /\ joined.state # "rejected"
      /\ joined.state = "fulfilled" <=> \A i \in TaskIds : Done(i)
      /\ \A i \in TaskIds \ {j} :
           /\ ~NotFound(i) => tasks[i].calls = <<InvocationOf(i).parameters>>
           /\ tasks[i].state = "fulfilled" => SameAsAlone(tasks[i].value, i)
           /\ HasReturned => SameAsAlone(returned.value[i], i)

\* a list was answered in which one invocation failed and another, whose
\* handler completed later, succeeded with the value of its handler
C4_Witness ==
  /\ call.kind = "executeTools"
  /\ HasReturned
  /\ \E i, j \in TaskIds :
       /\ i # j
       /\ Fails(j)
       /\ HandlerReturns(i)
       /\ returned.value[i].result = OutcomeOf(i).value
       /\ returned.value[i].durationMs > returned.value[j].durationMs

\* C5: an invocation whose tool name is not registered gets the error
\* 'Tool "<name>" not found' with its name, no result, its id, a duration >= 0,
\* and no handler is called for it.
C5_UnregisteredToolNotFound ==
  \A i \in TaskIds : NotFound(i) =>
    /\ tasks[i].calls = <<>>
    /\ tasks[i].state = "fulfilled"
    /\ tasks[i].value.error = Str("Tool \"" \o InvocationOf(i).name \o "\" not found")
    /\ tasks[i].value.result = Undefined
    /\ tasks[i].value.id = InvocationOf(i).id
    /\ tasks[i].value.durationMs >= 0
    /\ HasReturned => ReturnedResults[i] = tasks[i].value

\* executeTool returned for a name that is not registered while other tools are
C5_Witness ==
  /\ HasReturned
  /\ call.kind = "executeTool"
  /\ NotFound(1)
  /\ Len(call.registry) > 0
  /\ returned.value.error = Str("Tool \"nonexistent_tool\" not found")

\* C6: when the handler of a registered tool raises, the result has no value and
\* its error is the message of the raised failure.
C6_HandlerFailureMessageKept ==
  \A i \in TaskIds : (HandlerRaises(i) /\ Done(i)) =>
    /\ tasks[i].state = "fulfilled"
    /\ tasks[i].value.result = Undefined
    /\ IsSet(tasks[i].value.error)
    /\ InstanceOfError(OutcomeOf(i).value) =>
         tasks[i].value.error = Str(OutcomeOf(i).value.data)
    /\ HasReturned => ReturnedResults[i] = tasks[i].value

\* a handler's promise rejected with an Error and the caller got its message
C6_Witness ==
  /\ HasReturned
  /\ \E i \in TaskIds :
       /\ HandlerRaises(i)
       /\ OutcomeOf(i) = [kind |-> "reject", value |-> NewError("Hello")]
       /\ ReturnedResults[i].error = Str("Hello")

\* C7: when the handler of a registered tool completes normally, the result
\* echoes the invocation's id and tool name, carries the value the handler
\* returned for the invocation's arguments, and has no error.
C7_SuccessCarriesHandlerValue ==
  \A i \in TaskIds : (HandlerReturns(i) /\ Done(i)) =>
    /\ tasks[i].state = "fulfilled"
    /\ tasks[i].value.id = InvocationOf(i).id
    /\ tasks[i].value.name = InvocationOf(i).name
    /\ tasks[i].value.result = OutcomeOf(i).value
    /\ tasks[i].value.error = Undefined
    /\ HasReturned => ReturnedResults[i] = tasks[i].value

\* the test tool echoed the message of invocation inv-123
C7_Witness ==
  /\ HasReturned
  /\ call.kind = "executeTool"
  /\ InvocationOf(1) = [id |-> "inv-123", name |-> "test_tool", parameters |-> "Hello"]
  /\ returned.value.result = EchoObject("Hello")
  /\ returned.value.error = Undefined

\* d is the whole number of milliseconds nearest to a span of clock ticks, the
\* half rounded up
NearestMs(d, ticks) ==
  /\ (2 * d - 1) * TicksPerMs <= 2 * ticks
  /\ 2 * ticks < (2 * d + 1) * TicksPerMs

\* activation i comes to its end in this step
Completes(i) ==
  /\ i \in 1..Len(tasks')
  /\ tasks'[i].state = "fulfilled"
  /\ i \in 1..Len(tasks) => tasks[i].state = "pending"

\* C11: every result object, of a success and of a failure alike, carries a
\* durationMs that is a non-negative integer: the clock reading when the
\* activation ended minus the reading when it began, rounded to whole
\* milliseconds.
C11_DurationIsRoundedElapsed ==
  /\ [](\A i \in TaskIds : tasks[i].state = "fulfilled" =>
          /\ tasks[i].value.durationMs \in Nat
          /\ HasReturned => ReturnedResults[i].durationMs = tasks[i].value.durationMs)
  /\ [][\A i \in 1..MaxBatch : Completes(i) =>
          NearestMs(tasks'[i].value.durationMs, now' - tasks'[i].startTime)]_vars

\* a handler failed half a millisecond after its start, one that returned took
\* a whole one, and a lookup that failed took no time
C11_Witness ==
  /\ HasReturned
  /\ \E i \in TaskIds :
       \/ /\ HandlerRaises(i)
          /\ IsSet(ReturnedResults[i].error)
          /\ ReturnedResults[i].durationMs = 1
          /\ \E j \in TaskIds : NotFound(j) /\ ReturnedResults[j].durationMs = 0
       \/ /\ HandlerReturns(i)
          /\ ReturnedResults[i].durationMs = 1
          /\ \E j \in TaskIds : NotFound(j) /\ ReturnedResults[j].durationMs = 0

\* the failure the handler of invocation i raised has no message: it is no
\* Error, or an Error with the empty message
RaisedWithoutMessage(i) ==
  /\ HandlerRaises(i)
  /\ ~InstanceOfError(OutcomeOf(i).value) \/ OutcomeOf(i).value.data = ""

\* C23: when the failure raised during a handler call carries no message (a
\* thrown value that is no Error, or an Error whose message is empty), the
\* error of the result is the generic string "Unknown error".
C23_NoMessageGivesUnknownError ==
  \A i \in TaskIds : (RaisedWithoutMessage(i) /\ Done(i)) =>
    /\ tasks[i].state = "fulfilled"
    /\ tasks[i].value.error = Str("Unknown error")

\* C25: executeTools runs the list concurrently: the handler of every
\* invocation naming a registered tool has been called before executeTools
\* waits for any handler, so while any handler is still at work every other
\* one has been started, and the step in which one activation completes waits
\* for no other activation and changes none.
C25_BatchRunsConcurrently ==
  /\ []((call.kind = "executeTools" /\ Running) =>
          \A i \in TaskIds :
            ~NotFound(i) => tasks[i].calls = <<InvocationOf(i).parameters>>)
  /\ [][\A i \in 1..MaxBatch :
          (call.kind = "executeTools" /\ Running /\ i \in TaskIds /\ Completes(i)) =>
            \A j \in TaskIds \ {i} : tasks'[j] = tasks[j]]_vars

\* in a list of two the second handler has completed while the first, called
\* before it, is still at work and executeTools still waits
C25_Witness ==
  /\ call.kind = "executeTools" /\ Running
  /\ Len(tasks) = 2
  /\ ~NotFound(1) /\ ~NotFound(2)
  /\ tasks[1].state = "pending" /\ tasks[1].calls = <<InvocationOf(1).parameters>>
  /\ tasks[2].state = "fulfilled" /\ HandlerReturns(2)
  /\ joined.state = "pending"
  /\ now > tasks[1].startTime

\* C26: dispatch never mutates the registry: no step of executeTool or
\* executeTools, whatever the invocations and their outcomes, changes the
\* registered names, their definitions or their order in getAll().
C26_DispatchLeavesRegistryAlone ==
  [][ExecutorVars' # ExecutorVars =>
       /\ tools' = tools
       /\ ToolRegistry_getAll(tools') = ToolRegistry_getAll(tools)
       /\ \A n \in ToolNames : ToolRegistry_has(tools', n) = ToolRegistry_has(tools, n)]_vars

\* a list with an unregistered name and a handler that raises was answered, and
\* the registry of several tools is as it was when the call was made
C26_Witness ==
  /\ HasReturned
  /\ call.kind = "executeTools"
  /\ Len(tools) >= 2
  /\ tools = call.registry
  /\ \E i, j \in TaskIds : NotFound(i) /\ HandlerRaises(j) /\ InvocationOf(j).name # tools[Len(tools)].key

\* the phrase of invocation i is one parseHumanDate fails on
Unparseable(i) ==
  parseHumanDate(InvocationOf(i).parameters, today).thrown # Undefined

\* C27: when parseHumanDate fails inside the handler of parse_date, nothing
\* is raised beyond the handler and the ToolResult of the invocation is a
\* failure: its error is set and its result is absent.
C27_ParseFailureIsAToolFailure ==
  \A i \in TaskIds :
    (RegisteredFor(i) = dateParserTool /\ Unparseable(i) /\ Done(i)) =>
      /\ tasks[i].state = "fulfilled"
      /\ IsSet(tasks[i].value.error)
      /\ tasks[i].value.result = Undefined

\* C28: each invocation is consumed exactly once: in executeTool and in
\* every list run by executeTools there is one activation per invocation, the
\* handler of a registered tool is called exactly once, with the arguments of
\* its invocation, whether it succeeds or fails, and no handler is called for
\* an unregistered name.
C28_InvocationConsumedOnce ==
  call.kind # "none" =>
    /\ Len(tasks) = Len(call.invocations)
    /\ \A i \in TaskIds :
         /\ ~NotFound(i) => tasks[i].calls = <<InvocationOf(i).parameters>>
         /\ NotFound(i) => tasks[i].calls = <<>>

\* a list was answered in which a handler failed after one call and a name
\* was not registered
C28_Witness ==
  /\ HasReturned
  /\ call.kind = "executeTools"
  /\ \E i, j \in TaskIds :
       /\ HandlerRaises(i) /\ OutcomeOf(i).kind = "reject"
       /\ IsSet(returned.value[i].error)
       /\ Len(tasks[i].calls) = 1
       /\ NotFound(j) /\ tasks[j].calls = <<>>

\* C29: executeTools terminates exactly when its handlers do: when every
\* handler of the list completes or fails in the end, executeTools returns its
\* list of results in the end; its promise is settled exactly when every
\* invocation has its result, and it never returns before that.
C29_BatchEndsWithItsHandlers ==
  /\ (call.kind = "executeTools" /\ Running) ~>
       (call.kind = "executeTools" /\ HasReturned)
  /\ []((call.kind = "executeTools" /\ Running) =>
          (joined.state # "pending" <=> \A i \in TaskIds : Done(i)))
  /\ []((call.kind = "executeTools" /\ call.status = "returned") =>
          /\ \A i \in TaskIds : Done(i)
          /\ Len(returned.value) = Len(call.invocations)
          /\ \A i \in TaskIds : returned.value[i] = tasks[i].value)
  /\ [][(call.kind = "executeTools" /\ Running /\ call'.status = "returned") =>
          \A i \in TaskIds : Done(i)]_vars

\* executeTools returned the results of two handlers, the first of which took
\* longer than the second
C29_Witness ==
  /\ call.kind = "executeTools"
  /\ HasReturned
  /\ Len(tasks) = 2
  /\ ~NotFound(1) /\ ~NotFound(2)
  /\ tasks[1].value.durationMs > tasks[2].value.durationMs
  /\ returned.value = <<tasks[1].value, tasks[2].value>>

-----------------------------------------------------------------------------
(* Registry claims, over SpecRegistry *)

\* the register calls made before the last one
EarlierCalls == SubSeq(regLog, 1, Len(regLog) - 1)
NamedIn(log, n) == \E i \in 1..Len(log) : log[i].tool.name = n
\* the definition handed to the first register call made with name n
FirstRegistered(log, n) ==
  log[CHOOSE i \in 1..Len(log) :
        /\ log[i].tool.name = n
        /\ \A j \in 1..(i - 1) : log[j].tool.name # n].tool
\* the definitions of the register calls that did not throw, in call order
Succeeded(log) ==
  LET ok == SelectSeq(log, LAMBDA e : e.thrown = Undefined)
  IN  SubSeq([i \in 1..Len(ok) |-> ok[i].tool], 1, Len(ok))
DuplicateRegister ==
  /\ lastOp.op = "register"
  /\ NamedIn(EarlierCalls, lastOp.arg.name)

\* C8: a register call with a name that is already registered throws and leaves
\* the registry as it was; after any sequence of register calls get(name)
\* returns the definition of the first register call made with that name.
C8_FirstRegistrationWins ==
  /\ [](/\ \A n \in ToolNames :
             NamedIn(regLog, n) =>
               ToolRegistry_get(tools, n).value = FirstRegistered(regLog, n)
        /\ DuplicateRegister =>
             lastOp.thrown = NewError(AlreadyRegisteredMessage(lastOp.arg.name)))
  /\ [][(/\ regLog' # regLog
          /\ NamedIn(regLog, regLog'[Len(regLog')].tool.name)) => tools' = tools]_vars

\* a duplicate registration of a different definition was rejected
C8_Witness ==
  /\ DuplicateRegister
  /\ lastOp.thrown # Undefined
  /\ ToolRegistry_get(tools, lastOp.arg.name).value # lastOp.arg

\* C9: getAll() is the list of the successfully registered definitions, each
\* once, in the order of their successful registration, and holds no name twice.
C9_GetAllInRegistrationOrder ==
  /\ ToolRegistry_getAll(tools) = Succeeded(regLog)
  /\ \A i, j \in 1..Len(ToolRegistry_getAll(tools)) :
       ToolRegistry_getAll(tools)[i].name = ToolRegistry_getAll(tools)[j].name => i = j
  /\ lastOp.op = "getAll" => lastOp.value = Succeeded(regLog)

\* getAll ran after two successful registrations and a failed duplicate one
C9_Witness ==
  /\ lastOp.op = "getAll"
  /\ Len(lastOp.value) = 2
  /\ Len(regLog) = 3

\* C10: get(name) never throws; it returns the registered definition when name
\* is registered and undefined otherwise; has(name) is true exactly when
\* get(name) returns a definition.
C10_GetNeverThrows ==
  /\ \A n \in ToolNames :
       /\ ToolRegistry_get(tools, n).thrown = Undefined
       /\ ToolRegistry_get(tools, n).value =
            (IF NamedIn(regLog, n) THEN FirstRegistered(regLog, n) ELSE Undefined)
       /\ ToolRegistry_has(tools, n) <=> ToolRegistry_get(tools, n).value # Undefined
  /\ lastOp.op = "get" =>
       /\ lastOp.thrown = Undefined
       /\ lastOp.value =
            (IF NamedIn(regLog, lastOp.arg.data)
               THEN FirstRegistered(regLog, lastOp.arg.data) ELSE Undefined)
  /\ lastOp.op = "has" =>
       lastOp.value = Bool(ToolRegistry_get(tools, lastOp.arg.data).value # Undefined)

\* get ran for a name that is not registered while another name is
C10_Witness ==
  /\ lastOp.op = "get"
  /\ lastOp.value = Undefined
  /\ Len(tools) > 0

-----------------------------------------------------------------------------
(* Date parser claims, over SpecDate *)

\* the Gregorian calendar, day by day
LeapYear(y) == (y % 4 = 0 /\ y % 100 # 0) \/ y % 400 = 0
MonthLength(y, m) ==
  IF m = 2 THEN (IF LeapYear(y) THEN 29 ELSE 28)
  ELSE IF m \in {4, 6, 9, 11} THEN 30 ELSE 31
\* a day the calendar has; its years are counted from 1
IsCalendarDate(y, m, d) == y >= 1 /\ m \in 1..12 /\ d \in 1..MonthLength(y, m)

\* the first day of the month after the month of a date
NextMonthStart(date) ==
  IF date.month < 12 THEN Date(date.year, date.month + 1, 1) ELSE Date(date.year + 1, 1, 1)

DayAfter(date) ==
  IF date.day < MonthLength(date.year, date.month) THEN Date(date.year, date.month, date.day + 1)
  ELSE NextMonthStart(date)
DayBefore(date) ==
  IF date.day > 1 THEN Date(date.year, date.month, date.day - 1)
  ELSE IF date.month > 1
    THEN Date(date.year, date.month - 1, MonthLength(date.year, date.month - 1))
  ELSE Date(date.year - 1, 12, 31)

RECURSIVE DaysAfter(_, _)
\* the date n days after a date, counted month by month
DaysAfter(date, n) ==
  LET left == MonthLength(date.year, date.month) - date.day IN
    IF n <= left THEN Date(date.year, date.month, date.day + n)
    ELSE DaysAfter(NextMonthStart(date), n - left - 1)

\* the day of the week of a date, Sunday 0 .. Saturday 6
WeekdayOf(date) ==
  LET t == <<0, 3, 2, 5, 0, 3, 5, 1, 4, 6, 2, 4>>
      y == IF date.month < 3 THEN date.year - 1 ELSE date.year
  IN  (y + y \div 4 - y \div 100 + y \div 400 + t[date.month] + date.day) % 7
WeekdayNumber ==
  [sunday |-> 0, monday |-> 1, tuesday |-> 2, wednesday |-> 3, thursday |-> 4,
   friday |-> 5, saturday |-> 6]

\* a date written YYYY-MM-DD
Text(date) == IsoText(date.year, date.month, date.day)
Returns(text) == Normal(Str(text))

DateCallIds == 1..Len(dateCalls)
Failed(i) == dateCalls[i].outcome.thrown # Undefined
Returned(i) == dateCalls[i].outcome.thrown = Undefined

\* four digits, two digits and two digits with dashes between
IsoShaped(x) ==
  /\ Len(x) = 10
  /\ \A i \in {1, 2, 3, 4, 6, 7, 9, 10} : CharAt(x, i) \in Digits
  /\ CharAt(x, 5) = "-" /\ CharAt(x, 8) = "-"
\* the string is of the shape and names a day the calendar has
DenotesCalendarDate(x) ==
  /\ IsoShaped(x)
  /\ IsCalendarDate(DecimalValue(Substring(x, 1, 4)), DecimalValue(Substring(x, 6, 7)),
                    DecimalValue(Substring(x, 9, 10)))

\* C12: a string of the shape YYYY-MM-DD that denotes a real calendar date is
\* returned unchanged, whatever the current date is.
C12_ValidIsoDateReturnedUnchanged ==
  \A i \in DateCallIds :
    DenotesCalendarDate(dateCalls[i].input) =>
      dateCalls[i].outcome = Returns(dateCalls[i].input)

\* the leap day of 2024 came back as it was given, on another day
C12_Witness ==
  /\ today = TestClockDate
  /\ dateCalls # <<>>
  /\ dateCalls[1].input = "2024-02-29"
  /\ dateCalls[1].outcome = Returns("2024-02-29")

\* C13: a string of the shape YYYY-MM-DD that denotes no real calendar date
\* (month outside 01-12, day outside the month's length, leap years counted)
\* makes parseHumanDate fail; no date is returned.
C13_InvalidIsoDateFails ==
  \A i \in DateCallIds :
    (IsoShaped(dateCalls[i].input) /\ ~DenotesCalendarDate(dateCalls[i].input)) =>
      /\ Failed(i)
      /\ dateCalls[i].outcome.value = Undefined

\* 29 February of a year that is no leap year was refused
C13_Witness ==
  /\ dateCalls # <<>>
  /\ dateCalls[1].input = "2023-02-29"
  /\ Failed(1)

\* C14: "today" gives the current date, "tomorrow" the calendar day after it
\* and "yesterday" the calendar day before it, also across the end of a month
\* or a year, each written YYYY-MM-DD.
C14_TodayTomorrowYesterday ==
  \A i \in DateCallIds :
    /\ dateCalls[i].input = "today" => dateCalls[i].outcome = Returns(Text(today))
    /\ dateCalls[i].input = "tomorrow" =>
         dateCalls[i].outcome = Returns(Text(DayAfter(today)))
    /\ dateCalls[i].input = "yesterday" =>
         dateCalls[i].outcome = Returns(Text(DayBefore(today)))

\* on the last day of 2024, tomorrow was the first day of 2025
C14_Witness ==
  /\ today = Date(2024, 12, 31)
  /\ dateCalls # <<>>
  /\ dateCalls[1].input = "tomorrow"
  /\ dateCalls[1].outcome = Returns("2025-01-01")

\* the number of days from a date to the first day after it that falls on the
\* day of the week w
DaysToNext(date, w) ==
  CHOOSE k \in 1..7 :
    /\ WeekdayOf(DaysAfter(date, k)) = w
    /\ \A j \in 1..(k - 1) : WeekdayOf(DaysAfter(date, j)) # w

\* C15: "next W", for a weekday name W, gives the earliest date strictly after
\* the current date that falls on W: 1 to 7 days later, and a week later when
\* the current date falls on W itself.
C15_NextWeekdayStrictlyAfter ==
  \A i \in DateCallIds : \A name \in DOMAIN WeekdayNumber :
    dateCalls[i].input = "next " \o name =>
      LET w == WeekdayNumber[name] IN
        /\ dateCalls[i].outcome = Returns(Text(DaysAfter(today, DaysToNext(today, w))))
        /\ dateCalls[i].outcome # Returns(Text(today))
        /\ \E k \in 1..7 : dateCalls[i].outcome = Returns(Text(DaysAfter(today, k)))
        /\ WeekdayOf(today) = w => dateCalls[i].outcome = Returns(Text(DaysAfter(today, 7)))

\* on Tuesday 2025-11-18, next Tuesday was a week later
C15_Witness ==
  /\ today = TestClockDate
  /\ WeekdayOf(today) = WeekdayNumber["tuesday"]
  /\ dateCalls # <<>>
  /\ dateCalls[1].input = "next tuesday"
  /\ dateCalls[1].outcome = Returns("2025-11-25")

\* C16: "next week" gives the first Monday strictly after the current date,
\* the date "next monday" gives.
C16_NextWeekIsNextMonday ==
  \A i \in DateCallIds :
    dateCalls[i].input = "next week" =>
      /\ dateCalls[i].outcome =
           Returns(Text(DaysAfter(today, DaysToNext(today, WeekdayNumber["monday"]))))
      /\ \A j \in DateCallIds :
           dateCalls[j].input = "next monday" => dateCalls[j].outcome = dateCalls[i].outcome

\* on a Monday, "next week" and "next monday" both gave the Monday after
C16_Witness ==
  /\ today = Date(2025, 11, 24)
  /\ Len(dateCalls) = 2
  /\ dateCalls[1].input = "next week"
  /\ dateCalls[2].input = "next monday"
  /\ dateCalls[1].outcome = Returns("2025-12-01")
  /\ dateCalls[2].outcome = Returns("2025-12-01")

\* the words of one to ten
NumberWord == <<"one", "two", "three", "four", "five", "six", "seven", "eight", "nine", "ten">>
\* the days a quantity of a unit comes to
DaysOf(n, unit) == IF unit \in {"week", "weeks"} THEN 7 * n ELSE n

\* C17: for n in 1..10 and a unit of day, days, week or weeks, the phrase with
\* the number word and the phrase with the digits give the same date: the
\* current date plus n days, or plus 7n days for weeks.
C17_WordAndDigitQuantitiesAgree ==
  \A n \in 1..10 : \A unit \in {"day", "days", "week", "weeks"} : \A i \in DateCallIds :
    (dateCalls[i].input \in {FromNowPhrase(NumberWord[n], unit),
                             FromNowPhrase(ToString(n), unit)}) =>
      dateCalls[i].outcome = Returns(Text(DaysAfter(today, DaysOf(n, unit))))

\* "three weeks from now" and "3 weeks from now" gave the same day of the next
\* month
C17_Witness ==
  /\ today = TestClockDate
  /\ Len(dateCalls) = 2
  /\ dateCalls[1].input = "three weeks from now"
  /\ dateCalls[2].input = "3 weeks from now"
  /\ dateCalls[1].outcome = Returns("2025-12-09")
  /\ dateCalls[2].outcome = dateCalls[1].outcome

\* the two strings spell the same sum: "today + n unit" with any blanks, or
\* "n unit from now"
SameSum(x, y) ==
  \E q \in DigitStrings : \E unit \in {"day", "days", "week", "weeks"} :
    LET spellings == {AdditionPhrase(q, unit, g) : g \in Gaps} \cup {FromNowPhrase(q, unit)}
    IN  x \in spellings /\ y \in spellings

\* C18: for a digit string n and a unit, "today + n unit" ends as "n unit from
\* now" does, with the same date, whether or not there are blanks around the
\* plus sign and before the unit.
C18_AdditionAgreesWithFromNow ==
  \A i \in DateCallIds : \A j \in DateCallIds :
    (StartsWithAt(dateCalls[i].input, 1, "today") /\ SameSum(dateCalls[i].input, dateCalls[j].input))
      => dateCalls[i].outcome = dateCalls[j].outcome

\* "today+2days" and "2 days from now" gave the same date
C18_Witness ==
  /\ today = TestClockDate
  /\ Len(dateCalls) = 2
  /\ dateCalls[1].input = "today+2days"
  /\ dateCalls[2].input = "2 days from now"
  /\ dateCalls[1].outcome = Returns("2025-11-20")
  /\ dateCalls[2].outcome = Returns("2025-11-20")

\* C19: whenever parseHumanDate fails (empty input, input of blanks only, input
\* that matches no pattern, input of the shape YYYY-MM-DD that is no real date)
\* the message of the failure contains the string it was called with.
C19_FailureMessageContainsInput ==
  \A i \in DateCallIds :
    Failed(i) => Includes(dateCalls[i].outcome.thrown.data, dateCalls[i].input)

\* C20: parseHumanDate is idempotent on what it returns: called with a date it
\* returned, on the same current date, it returns that date again.
C20_IdempotentOnOutputs ==
  \A j \in DateCallIds : \A i \in 1..(j - 1) :
    (Returned(i) /\ dateCalls[j].input = dateCalls[i].outcome.value.data) =>
      dateCalls[j].outcome = Returns(dateCalls[i].outcome.value.data)

\* both calls returned the same date, or both failed
SameOutcome(i, j) ==
  \/ Returned(i) /\ Returned(j) /\ dateCalls[i].outcome = dateCalls[j].outcome
  \/ Failed(i) /\ Failed(j)

C24_OnlyDigitsAndTableWordsAccepted ==
  \A i \in DateCallIds : \A q \in OtherQuantities : \A unit \in UnitWords :
    dateCalls[i].input = FromNowPhrase(q, unit) => Failed(i)

-----------------------------------------------------------------------------
(* create_checklist claims, over SpecChecklist *)

ChecklistDone == checklistRun.pc = "done"
ChecklistResult == checklistRun.promise.value
ConversationIdMissing == ~Truthy(checklistRun.params.conversationId)
InsertFailed == checklistRun.failure # Undefined

\* C22: the handler of create_checklist never raises: when conversationId is
\* missing, or when an insert fails, it completes normally and returns a
\* record with success = false and a non-empty error, which is the message of
\* the failure when the failure has one.
C22_ChecklistNeverRaises ==
  /\ checklistRun.promise.state # "rejected"
  /\ (ChecklistDone /\ (ConversationIdMissing \/ InsertFailed)) =>
       /\ checklistRun.promise.state = "fulfilled"
       /\ ChecklistResult.success = FALSE
       /\ ChecklistResult.error.type = "string"
       /\ ChecklistResult.error.data # ""
       /\ (InstanceOfError(checklistRun.failure) /\ checklistRun.failure.data # "")
            => ChecklistResult.error.data = checklistRun.failure.data


\* the rows of a table that this call of the handler wrote
WrittenChecklists ==
  {k \in 1..Len(db.checklists) : db.checklists[k].id = checklistRun.checklist.id}
WrittenItems ==
  {k \in 1..Len(db.checklistItems) :
     db.checklistItems[k].checklistId = checklistRun.checklist.id}

\* C30: the handler of create_checklist is all-or-nothing: when it returns
\* success = false, no checklist row written by the call remains in the
\* database; when it returns success = true, the checklist row and one item
\* row for each item, each referencing the new checklist id, are in it.
C30_ChecklistAllOrNothing ==
  ChecklistDone =>
    /\ ~ChecklistResult.success => WrittenChecklists = {}
    /\ ChecklistResult.success =>
         /\ Cardinality(WrittenChecklists) = 1
         /\ ChecklistResult.checklistId = Str(checklistRun.checklist.id)
         /\ Cardinality(WrittenItems) = Len(checklistRun.params.items.elems)
         /\ \A k \in 1..Len(checklistRun.itemsToInsert) :
              \E j \in WrittenItems : db.checklistItems[j] = checklistRun.itemsToInsert[k]

=============================================================================
